---- MODULE Spec2Model ----
(***************************************************************************)
(* A model of python-zmanim's AstronomicalCalendar (the reconstruction of  *)
(* a local date-time from the solver's fractional UTC hour, temporal_hour  *)
(* and sun_transit) and of HebrewDateFormatter (format_hebrew_number and   *)
(* format_yom_tov).                                                        *)
(*                                                                         *)
(* Representation of the Python values:                                    *)
(*  - a date is its day number; a date-time is the record                  *)
(*    [kind |-> "datetime", instant |-> seconds since day 0 00:00 UTC,     *)
(*     tz |-> the UTC offset, in milliseconds, of its tzinfo];             *)
(*  - the solver's fractional UTC hour time_of_day is carried as the       *)
(*    number of seconds time_of_day * 3600, the first quantity             *)
(*    __date_time_from_time_of_day computes from it.  The sampled hours    *)
(*    are whole minutes, so every quotient below is exact and the          *)
(*    microsecond component is 0;                                          *)
(*  - None is [kind |-> "None"], the private default object() of           *)
(*    temporal_hour is [kind |-> "sentinel"];                              *)
(*  - a str is the sequence of its characters, each Hebrew letter being    *)
(*    named by its transliteration.                                        *)
(***************************************************************************)
EXTENDS Integers, Sequences, FiniteSets, TLC

VARIABLES geo_location, date, astronomical_calculator, formatter, call, ret

vars == <<geo_location, date, astronomical_calculator, formatter, call, ret>>

(***************************************************************************)
(* Constants of the program                                                *)
(***************************************************************************)
GEOMETRIC_ZENITH == 90
CIVIL_ZENITH == 96
NAUTICAL_ZENITH == 102
ASTRONOMICAL_ZENITH == 108

\* MathHelper.HOUR_MILLIS: milliseconds in one standard hour
HOUR_MILLIS == 3600000

None == [kind |-> "None"]

\* AstronomicalCalendar.__sentinel = object()
sentinel == [kind |-> "sentinel"]

\* pytz.UTC, as a UTC offset
UTC == 0

\* one timedelta(1), in seconds
DAY_SECONDS == 24 * 3600

Float(seconds) == [kind |-> "float", seconds |-> seconds]

Millis(m) == [kind |-> "float", millis |-> m]

\* datetime(year, month, day, hours, minutes, seconds, microseconds, tzinfo)
DateTime(day, hours, minutes, seconds, tz) ==
    [kind |-> "datetime",
     instant |-> day * DAY_SECONDS + hours * 3600 + minutes * 60 + seconds,
     tz |-> tz]

(***************************************************************************)
(* Bounds and sampled inputs                                               *)
(***************************************************************************)
\* local mean time offsets are k half hours, k in -MaxLmtHalfHours..MaxLmtHalfHours
MaxLmtHalfHours == 1

Zeniths == {GEOMETRIC_ZENITH, CIVIL_ZENITH, NAUTICAL_ZENITH, ASTRONOMICAL_ZENITH}

HM(h, m) == h * 3600 + m * 60

\* solver answers for sunrise / sunset at the geometric zenith
RiseSamples == {None, Float(HM(6, 0)), Float(HM(18, 30)), Float(HM(19, 0)),
                Float(HM(23, 30))}

SetSamples == {None, Float(HM(18, 0)), Float(HM(5, 30)), Float(HM(6, 15)),
               Float(HM(16, 40))}

\* change of the solver's answer per twilight class (6 degrees of zenith), seconds
TwilightSteps == {HM(0, 30), -HM(0, 10)}

StandardOffsets == {-10 * HOUR_MILLIS, 0, 13 * HOUR_MILLIS}

LmtOffsets == {k * (HOUR_MILLIS \div 2) : k \in -MaxLmtHalfHours..MaxLmtHalfHours}

DstOffsets == {0, HOUR_MILLIS}

Elevations == {0, 800}

Dates == {3}

GeoLocations ==
    {[local_mean_time_offset |-> lmt, standard_time_offset |-> std,
      antimeridian_adjustment |-> anti, time_zone |-> std + dst,
      elevation |-> elev] :
        lmt \in LmtOffsets, std \in StandardOffsets, anti \in {-1, 0, 1},
        dst \in DstOffsets, elev \in Elevations}

\* A stub solver: sea-level answers per zenith, wrapped into [0, 24h) as a
\* solver's UTC hour is.
Wrap(base, delta) ==
    IF base = None THEN None ELSE Float((base.seconds + delta) % DAY_SECONDS)

ZenithClass(zenith) == (zenith - GEOMETRIC_ZENITH) \div 6

StubCalculator(rise, set, riseStep, setStep) ==
    [sunrise |-> [z \in Zeniths |-> Wrap(rise, -(riseStep * ZenithClass(z)))],
     sunset |-> [z \in Zeniths |-> Wrap(set, setStep * ZenithClass(z))]]

Calculators ==
    {StubCalculator(r, s, dr, ds) :
        r \in RiseSamples, s \in SetSamples, dr \in TwilightSteps, ds \in TwilightSteps}

\* seconds by which the stub solver widens the day for an observer at elevation
ElevationGain(elevation) == (elevation \div 200) * 60

(***************************************************************************)
(* The solver (AstronomicalCalculations), as the calendar calls it         *)
(***************************************************************************)
calculator_utc_sunrise(calculator, adjusted, location, zenith, adjust_for_elevation) ==
    IF adjust_for_elevation
    THEN Wrap(calculator.sunrise[zenith], -ElevationGain(location.elevation))
    ELSE calculator.sunrise[zenith]

calculator_utc_sunset(calculator, adjusted, location, zenith, adjust_for_elevation) ==
    IF adjust_for_elevation
    THEN Wrap(calculator.sunset[zenith], ElevationGain(location.elevation))
    ELSE calculator.sunset[zenith]

(***************************************************************************)
(* AstronomicalCalendar                                                    *)
(***************************************************************************)
Self == [geo_location |-> geo_location, date |-> date,
         astronomical_calculator |-> astronomical_calculator]

adjusted_date(self) == self.date + self.geo_location.antimeridian_adjustment

convert_date_time_for_zone(self, utc_time) ==
    [utc_time EXCEPT !.tz = self.geo_location.time_zone]

\* timedelta(days) added to a date-time
PlusDays(date_time, days) ==
    [date_time EXCEPT !.instant = @ + days * DAY_SECONDS]

\* mutant: the two corrections exchanged
wraparound_days_reversed(self, hours, mode) ==
    LET local_offset_millis == self.geo_location.local_mean_time_offset
                                 + self.geo_location.standard_time_offset
    IN  IF hours * HOUR_MILLIS + local_offset_millis > 18 * HOUR_MILLIS
           /\ mode = "sunrise"
        THEN 1
        ELSE IF hours * HOUR_MILLIS + local_offset_millis < 6 * HOUR_MILLIS
                /\ mode = "sunset"
             THEN -1
             ELSE 0

\* the date-boundary correction of __date_time_from_time_of_day; the comparison
\* hours + local_offset > 18 is made in milliseconds, local_offset being
\* (local_mean_time_offset + standard_time_offset) / HOUR_MILLIS
wraparound_days(self, hours, mode) ==
    LET local_offset_millis == self.geo_location.local_mean_time_offset
                                 + self.geo_location.standard_time_offset
    IN  IF hours * HOUR_MILLIS + local_offset_millis > 18 * HOUR_MILLIS
           /\ mode = "sunrise"
        THEN -1
        ELSE IF hours * HOUR_MILLIS + local_offset_millis < 6 * HOUR_MILLIS
                /\ mode = "sunset"
             THEN 1
             ELSE 0

date_time_from_time_of_day(self, time_of_day, mode) ==
    IF time_of_day = None
    THEN None
    ELSE LET hours == time_of_day.seconds \div 3600
             remainder == time_of_day.seconds % 3600
             minutes == remainder \div 60
             seconds == remainder % 60
             utc_time == DateTime(adjusted_date(self), hours, minutes, seconds, UTC)
         IN  convert_date_time_for_zone(
                 self, PlusDays(utc_time, wraparound_days(self, hours, mode)))

utc_sunrise(self, zenith) ==
    calculator_utc_sunrise(self.astronomical_calculator, adjusted_date(self),
                           self.geo_location, zenith, TRUE)

\* mutant: the sea-level request made with the elevation adjustment on
utc_sea_level_sunrise_adjusted(self, zenith) ==
    calculator_utc_sunrise(self.astronomical_calculator, adjusted_date(self),
                           self.geo_location, zenith, TRUE)

\* mutant: the sea-level sunrise request sent to the solver's sunset
utc_sea_level_sunrise_from_sunset(self, zenith) ==
    calculator_utc_sunset(self.astronomical_calculator, adjusted_date(self),
                          self.geo_location, zenith, FALSE)

utc_sea_level_sunrise(self, zenith) ==
    calculator_utc_sunrise(self.astronomical_calculator, adjusted_date(self),
                           self.geo_location, zenith, FALSE)

utc_sunset(self, zenith) ==
    calculator_utc_sunset(self.astronomical_calculator, adjusted_date(self),
                          self.geo_location, zenith, TRUE)

utc_sea_level_sunset(self, zenith) ==
    calculator_utc_sunset(self.astronomical_calculator, adjusted_date(self),
                          self.geo_location, zenith, FALSE)

sunrise(self) ==
    date_time_from_time_of_day(self, utc_sunrise(self, GEOMETRIC_ZENITH), "sunrise")

sunrise_offset_by_degrees(self, offset_zenith) ==
    date_time_from_time_of_day(self, utc_sea_level_sunrise(self, offset_zenith), "sunrise")

sea_level_sunrise(self) == sunrise_offset_by_degrees(self, GEOMETRIC_ZENITH)

sunset(self) ==
    date_time_from_time_of_day(self, utc_sunset(self, GEOMETRIC_ZENITH), "sunset")

sunset_offset_by_degrees(self, offset_zenith) ==
    date_time_from_time_of_day(self, utc_sea_level_sunset(self, offset_zenith), "sunset")

sea_level_sunset(self) == sunset_offset_by_degrees(self, GEOMETRIC_ZENITH)

\* mutant: an absent bound answered with a length of 0
temporal_hour_absent_as_zero(self, sunrise_arg, sunset_arg) ==
    LET rise == IF sunrise_arg = sentinel THEN sea_level_sunrise(self) ELSE sunrise_arg
        set == IF sunset_arg = sentinel THEN sea_level_sunset(self) ELSE sunset_arg
    IN  IF set = None \/ rise = None
        THEN Millis(0)
        ELSE Millis(((set.instant - rise.instant) * (HOUR_MILLIS \div 3600)) \div 12)

\* mutant: None as the default of the arguments, so that an explicit None is
\* replaced as well
temporal_hour_none_as_default(self, sunrise_arg, sunset_arg) ==
    LET rise == IF sunrise_arg = sentinel \/ sunrise_arg = None
                THEN sea_level_sunrise(self) ELSE sunrise_arg
        set == IF sunset_arg = sentinel \/ sunset_arg = None
               THEN sea_level_sunset(self) ELSE sunset_arg
    IN  IF set = None \/ rise = None
        THEN None
        ELSE Millis(((set.instant - rise.instant) * (HOUR_MILLIS \div 3600)) \div 12)

\* mutant: the day divided into 24 hours
temporal_hour_of_24(self, sunrise_arg, sunset_arg) ==
    LET rise == IF sunrise_arg = sentinel THEN sea_level_sunrise(self) ELSE sunrise_arg
        set == IF sunset_arg = sentinel THEN sea_level_sunset(self) ELSE sunset_arg
    IN  IF set = None \/ rise = None
        THEN None
        ELSE Millis(((set.instant - rise.instant) * (HOUR_MILLIS \div 3600)) \div 24)

\* (sunset - sunrise).total_seconds() / 3600.0 / 12 * HOUR_MILLIS, the factor
\* HOUR_MILLIS / 3600.0 applied first to stay in the integers
temporal_hour(self, sunrise_arg, sunset_arg) ==
    LET rise == IF sunrise_arg = sentinel THEN sea_level_sunrise(self) ELSE sunrise_arg
        set == IF sunset_arg = sentinel THEN sea_level_sunset(self) ELSE sunset_arg
    IN  IF set = None \/ rise = None
        THEN None
        ELSE Millis(((set.instant - rise.instant) * (HOUR_MILLIS \div 3600)) \div 12)

\* mutant: timedelta(noon_hour), the hours taken for days
sun_transit_hours_as_days(self) ==
    LET rise == sea_level_sunrise(self)
        set == sea_level_sunset(self)
    IN  IF rise = None \/ set = None
        THEN None
        ELSE LET noon_millis ==
                     (((set.instant - rise.instant) * (HOUR_MILLIS \div 3600)) \div 12) * 6
             IN  [rise EXCEPT !.instant = @ + (noon_millis \div 1000) * 24]

\* noon_hour = temporal_hour / HOUR_MILLIS * 6.0 hours lasts temporal_hour * 6
\* milliseconds; timedelta(noon_hour / 24.0) is that duration
sun_transit(self) ==
    LET rise == sea_level_sunrise(self)
        set == sea_level_sunset(self)
    IN  IF rise = None \/ set = None
        THEN None
        ELSE LET noon_millis == temporal_hour(self, rise, set).millis * 6
             IN  [rise EXCEPT !.instant = @ + noon_millis \div 1000]

(***************************************************************************)
(* HebrewDateFormatter                                                     *)
(***************************************************************************)
\* a Python list is indexed from 0
Index(list, i) == list[i + 1]

Str(chars) == [kind |-> "str", chars |-> chars]

ValueError == [kind |-> "ValueError"]

IndexError == [kind |-> "IndexError"]

GERESH == "geresh"

GERSHAYIM == "gershayim"

SPACE == "space"

\* string[:-1] and string[-1:]
ButLast(string) ==
    IF Len(string) = 0 THEN <<>> ELSE SubSeq(string, 1, Len(string) - 1)

LastSlice(string) ==
    IF Len(string) = 0 THEN <<>> ELSE <<string[Len(string)]>>

ALAFIM == <<"alef", "lamed", "pe", "yod", "final_mem">>

EFES == <<"alef", "pe", "samekh">>

HUNDREDS ==
    << <<>>, <<"qof">>, <<"resh">>, <<"shin">>, <<"tav">>, <<"tav", "qof">>,
       <<"tav", "resh">>, <<"tav", "shin">>, <<"tav", "tav">>,
       <<"tav", "tav", "qof">> >>

TENS ==
    << <<>>, <<"yod">>, <<"kaf">>, <<"lamed">>, <<"mem">>, <<"nun">>,
       <<"samekh">>, <<"ayin">>, <<"pe">>, <<"tsadi">> >>

TEN_ENDS ==
    << <<>>, <<"yod">>, <<"final_kaf">>, <<"lamed">>, <<"final_mem">>,
       <<"final_nun">>, <<"samekh">>, <<"ayin">>, <<"final_pe">>,
       <<"final_tsadi">> >>

TAV_TAZ == << <<"tet", "vav">>, <<"tet", "zayin">> >>

ONES ==
    << <<>>, <<"alef">>, <<"bet">>, <<"gimel">>, <<"dalet">>, <<"he">>,
       <<"vav">>, <<"zayin">>, <<"chet">>, <<"tet">> >>

\* mutant: 400 not taken for a single letter
single_digit_below_400(short_number) ==
    \/ short_number < 11
    \/ (short_number < 100 /\ short_number % 10 = 0)
    \/ (short_number < 400 /\ short_number % 100 = 0)

\* short_number is written with one Hebrew letter
single_digit(short_number) ==
    \/ short_number < 11
    \/ (short_number < 100 /\ short_number % 10 = 0)
    \/ (short_number <= 400 /\ short_number % 100 = 0)

\* the letters of number % 100
tens_and_ones(number, single_digit_number) ==
    IF number = 15
    THEN Index(TAV_TAZ, 0)
    ELSE IF number = 16
         THEN Index(TAV_TAZ, 1)
         ELSE LET tens == number \div 10
              IN  IF number % 10 = 0
                  THEN IF ~single_digit_number
                       THEN Index(TEN_ENDS, tens)
                       ELSE Index(TENS, tens)
                  ELSE Index(TENS, tens) \o Index(ONES, number % 10)

\* the closing quote marks of format_hebrew_number
geresh_gershayim(self, string_number, single_digit_number) ==
    IF self.use_geresh_gershayim
    THEN IF single_digit_number
         THEN string_number \o <<GERESH>>
         ELSE ButLast(string_number) \o <<GERSHAYIM>> \o LastSlice(string_number)
    ELSE string_number

thousands_prefix(self, thousands) ==
    Index(ONES, thousands)
        \o (IF self.use_geresh_gershayim THEN <<GERESH>> ELSE <<>>)
        \o <<SPACE>>

format_hebrew_number(self, number) ==
    IF number < 0
    THEN ValueError
    ELSE IF number > 9999
    THEN ValueError
    ELSE IF number = 0
    THEN Str(EFES)
    ELSE LET short_number == number % 1000
             single_digit_number == single_digit(short_number)
             thousands == number \div 1000
         IN  IF number % 1000 = 0
             THEN Str(thousands_prefix(self, thousands) \o ALAFIM)
             ELSE LET prefix == IF self.use_long_hebrew_years /\ number >= 1000
                                THEN thousands_prefix(self, thousands)
                                ELSE <<>>
                      hundreds == (number % 1000) \div 100
                      string_number ==
                          prefix \o Index(HUNDREDS, hundreds)
                                 \o tens_and_ones((number % 1000) % 100,
                                                  single_digit_number)
                  IN  Str(geresh_gershayim(self, string_number, single_digit_number))

\* HebrewDateFormatter(): the settings of __init__ without keyword arguments
DefaultFormatter ==
    [hebrew_format |-> TRUE, use_long_hebrew_years |-> TRUE,
     use_geresh_gershayim |-> TRUE]

\* the Hebrew and the transliterated string literal naming a holiday
He(holiday) == <<"he:" \o holiday>>

En(holiday) == <<"en:" \o holiday>>

\* lines 34: no comma separates the literals of Shushan Purim Katan and Rosh
\* Chodesh, which Python concatenates into one entry
HEBREW_HOLIDAYS ==
    << <<>>, He("erev_pesach"), He("pesach"), He("chol_hamoed_pesach"),
       He("pesach_sheni"), He("erev_shavuos"), He("shavuos"),
       He("seventeenth_of_tammuz"), He("tishah_beav"), He("tu_beav"),
       He("erev_rosh_hashana"), He("rosh_hashana"), He("fast_of_gedalyah"),
       He("erev_yom_kippur"), He("yom_kippur"), He("erev_succos"), He("succos"),
       He("chol_hamoed_succos"), He("hoshana_rabbah"), He("shemini_atzeres"),
       He("simchas_torah"), He("erev_chanukah"), He("chanukah"),
       He("tenth_of_teves"), He("tu_beshvat"), He("fast_of_esther"), He("purim"),
       He("shushan_purim"), He("purim_katan"),
       He("shushan_purim_katan") \o He("rosh_chodesh"), He("yom_hashoah"),
       He("yom_hazikaron"), He("yom_haatzmaut"), He("yom_yerushalayim") >>

TRANSLITERATED_HOLIDAYS ==
    << <<>>, En("erev_pesach"), En("pesach"), En("chol_hamoed_pesach"),
       En("pesach_sheni"), En("erev_shavuos"), En("shavuos"),
       En("seventeenth_of_tammuz"), En("tishah_beav"), En("tu_beav"),
       En("erev_rosh_hashana"), En("rosh_hashana"), En("fast_of_gedalyah"),
       En("erev_yom_kippur"), En("yom_kippur"), En("erev_succos"), En("succos"),
       En("chol_hamoed_succos"), En("hoshana_rabbah"), En("shemini_atzeres"),
       En("simchas_torah"), En("erev_chanukah"), En("chanukah"),
       En("tenth_of_teves"), En("tu_beshvat"), En("fast_of_esther"), En("purim"),
       En("shushan_purim"), En("purim_katan"), En("shushan_purim_katan"),
       En("rosh_chodesh"), En("yom_hashoah"), En("yom_hazikaron"),
       En("yom_haatzmaut"), En("yom_yerushalayim") >>

\* list[index], raising IndexError past the end
Subscript(list, index) ==
    IF index < Len(list) THEN Str(Index(list, index)) ELSE IndexError

\* JewishCalendar.SIGNIFICANT_DAYS: the values of its members, and chanukah's
LAST_SIGNIFICANT_DAY == 34

CHANUKAH == 22

SignificantDay(value) == [kind |-> "significant_day", value |-> value]

\* str(day_of_chanukah)
Decimal(day) == <<"digit:" \o ToString(day)>>

format_yom_tov(self, jewish_calendar) ==
    LET yom_tov == jewish_calendar.significant_day
    IN  IF yom_tov = None
        THEN Str(<<>>)
        ELSE LET index == yom_tov.value
             IN  IF index = CHANUKAH
                 THEN LET day_of_chanukah == jewish_calendar.day_of_chanukah
                      IN  IF self.hebrew_format
                          THEN LET number == format_hebrew_number(self, day_of_chanukah)
                                   name == Subscript(HEBREW_HOLIDAYS, index)
                               IN  IF number.kind # "str" THEN number
                                   ELSE IF name.kind # "str" THEN name
                                   ELSE Str(number.chars \o <<SPACE>> \o name.chars)
                          ELSE LET name == Subscript(TRANSLITERATED_HOLIDAYS, index)
                               IN  IF name.kind # "str" THEN name
                                   ELSE Str(name.chars \o <<SPACE>>
                                                \o Decimal(day_of_chanukah))
                 ELSE IF self.hebrew_format
                      THEN Subscript(HEBREW_HOLIDAYS, index)
                      ELSE Subscript(TRANSLITERATED_HOLIDAYS, index)

(***************************************************************************)
(* Construction and the queries                                            *)
(***************************************************************************)
NoCall == [op |-> "constructed"]

\* explicit bounds handed to temporal_hour
ExplicitSunrise(d) == DateTime(d, 5, 0, 0, UTC)

ExplicitSunset(d) == DateTime(d, 19, 30, 0, UTC)

Init ==
    /\ geo_location \in GeoLocations
    /\ date \in Dates
    /\ astronomical_calculator \in Calculators
    /\ formatter = DefaultFormatter
    /\ call = NoCall
    /\ ret = None

\* no query is in progress
Idle == call = NoCall

Query(c, r) ==
    /\ Idle
    /\ call' = c
    /\ ret' = r
    /\ UNCHANGED <<geo_location, date, astronomical_calculator, formatter>>

Sunrise == Query([op |-> "sunrise"], sunrise(Self))

SeaLevelSunrise == Query([op |-> "sea_level_sunrise"], sea_level_sunrise(Self))

SunriseOffsetByDegrees ==
    /\ Idle
    /\ \E z \in Zeniths :
           Query([op |-> "sunrise_offset_by_degrees", zenith |-> z],
              sunrise_offset_by_degrees(Self, z))

Sunset == Query([op |-> "sunset"], sunset(Self))

SeaLevelSunset == Query([op |-> "sea_level_sunset"], sea_level_sunset(Self))

SunsetOffsetByDegrees ==
    /\ Idle
    /\ \E z \in Zeniths :
           Query([op |-> "sunset_offset_by_degrees", zenith |-> z],
              sunset_offset_by_degrees(Self, z))

UtcSunrise ==
    /\ Idle
    /\ \E z \in Zeniths : Query([op |-> "utc_sunrise", zenith |-> z], utc_sunrise(Self, z))

UtcSeaLevelSunrise ==
    /\ Idle
    /\ \E z \in Zeniths :
           Query([op |-> "utc_sea_level_sunrise", zenith |-> z], utc_sea_level_sunrise(Self, z))

UtcSunset ==
    /\ Idle
    /\ \E z \in Zeniths : Query([op |-> "utc_sunset", zenith |-> z], utc_sunset(Self, z))

UtcSeaLevelSunset ==
    /\ Idle
    /\ \E z \in Zeniths :
           Query([op |-> "utc_sea_level_sunset", zenith |-> z], utc_sea_level_sunset(Self, z))

TemporalHour ==
    /\ Idle
    /\ \E rise \in {sentinel, None, ExplicitSunrise(date)},
          set \in {sentinel, None, ExplicitSunset(date)} :
           Query([op |-> "temporal_hour", sunrise |-> rise, sunset |-> set],
              temporal_hour(Self, rise, set))

SunTransit == Query([op |-> "sun_transit"], sun_transit(Self))

\* the caller takes the result; the calendar is unchanged and can be queried again
Return ==
    /\ call # NoCall
    /\ call' = NoCall
    /\ ret' = None
    /\ UNCHANGED <<geo_location, date, astronomical_calculator, formatter>>

\* numbers handed to format_hebrew_number are -1..MaxNumber
MaxNumber == 10000

\* days of Chanukah are 1..MaxChanukahDay
MaxChanukahDay == 8

Formatters ==
    [hebrew_format : BOOLEAN, use_long_hebrew_years : BOOLEAN,
     use_geresh_gershayim : BOOLEAN]

JewishCalendars ==
    {[significant_day |-> None, day_of_chanukah |-> -1]}
        \cup {[significant_day |-> SignificantDay(i), day_of_chanukah |-> -1] :
                  i \in (1..LAST_SIGNIFICANT_DAY) \ {CHANUKAH}}
        \cup {[significant_day |-> SignificantDay(CHANUKAH), day_of_chanukah |-> d] :
                  d \in 1..MaxChanukahDay}

FormatHebrewNumber ==
    /\ Idle
    /\ \E number \in -1..MaxNumber :
           Query([op |-> "format_hebrew_number", number |-> number],
              format_hebrew_number(formatter, number))

FormatYomTov ==
    /\ Idle
    /\ \E jewish_calendar \in JewishCalendars :
           Query([op |-> "format_yom_tov", jewish_calendar |-> jewish_calendar],
              format_yom_tov(formatter, jewish_calendar))

InitFormatter ==
    /\ geo_location \in {g \in GeoLocations :
            /\ g.local_mean_time_offset = 0 /\ g.standard_time_offset = 0
            /\ g.antimeridian_adjustment = 0 /\ g.time_zone = 0 /\ g.elevation = 0}
    /\ date \in Dates
    /\ astronomical_calculator
          = StubCalculator(Float(HM(6, 0)), Float(HM(18, 0)), HM(0, 30), HM(0, 30))
    /\ formatter \in Formatters
    /\ call = NoCall
    /\ ret = None

NextFormatter ==
    \/ FormatHebrewNumber
    \/ FormatYomTov
    \/ Return

SpecFormatter == InitFormatter /\ [][NextFormatter]_vars

Next ==
    \/ Sunrise
    \/ SeaLevelSunrise
    \/ SunriseOffsetByDegrees
    \/ Sunset
    \/ SeaLevelSunset
    \/ SunsetOffsetByDegrees
    \/ UtcSunrise
    \/ UtcSeaLevelSunrise
    \/ UtcSunset
    \/ UtcSeaLevelSunset
    \/ TemporalHour
    \/ SunTransit
    \/ Return

Spec == Init /\ [][Next]_vars

(***************************************************************************)
(* Properties                                                              *)
(***************************************************************************)
SunriseOps == {"sunrise", "sea_level_sunrise", "sunrise_offset_by_degrees"}

SunsetOps == {"sunset", "sea_level_sunset", "sunset_offset_by_degrees"}

\* the answer of the solver to the request the query in progress makes
SolverAnswer ==
    LET adjusted == date + geo_location.antimeridian_adjustment
        zenith == IF call.op \in {"sunrise_offset_by_degrees", "sunset_offset_by_degrees"}
                  THEN call.zenith
                  ELSE GEOMETRIC_ZENITH
        elevated == call.op \in {"sunrise", "sunset"}
    IN  IF call.op \in SunriseOps
        THEN calculator_utc_sunrise(astronomical_calculator, adjusted, geo_location,
                                    zenith, elevated)
        ELSE calculator_utc_sunset(astronomical_calculator, adjusted, geo_location,
                                   zenith, elevated)

\* the instant of the adjusted date at time of day h (seconds), in UTC
AdjustedInstant(h) ==
    (date + geo_location.antimeridian_adjustment) * DAY_SECONDS + h

LocalOffsetMillis ==
    geo_location.local_mean_time_offset + geo_location.standard_time_offset

\* h + local_offset_hours > 18 and < 6 for the fractional hour h, given in
\* seconds and compared in milliseconds
After18(h) == h * 1000 + LocalOffsetMillis > 18 * HOUR_MILLIS

Before6(h) == h * 1000 + LocalOffsetMillis < 6 * HOUR_MILLIS

\* C1: the result of a sunrise query is the adjusted date at the solver's
\* fractional hour h minus one day exactly when h + local_offset_hours > 18,
\* that of a sunset query plus one day exactly when h + local_offset_hours < 6,
\* and unshifted otherwise.
C1_DateBoundaryCorrection ==
    (call.op \in SunriseOps \cup SunsetOps /\ SolverAnswer # None) =>
        LET h == SolverAnswer.seconds
            days == IF call.op \in SunriseOps /\ After18(h) THEN -1
                    ELSE IF call.op \in SunsetOps /\ Before6(h) THEN 1
                    ELSE 0
        IN  /\ ret.kind = "datetime"
            /\ ret.instant = AdjustedInstant(h) + days * DAY_SECONDS

SeaLevelRiseAnswer == astronomical_calculator.sunrise[GEOMETRIC_ZENITH]

SeaLevelSetAnswer == astronomical_calculator.sunset[GEOMETRIC_ZENITH]

DefaultTemporalHour ==
    call.op = "temporal_hour" /\ call.sunrise = sentinel /\ call.sunset = sentinel

\* C2: when the solver has no sea-level sunrise or no sea-level sunset at the
\* geometric zenith, temporal_hour() and sun_transit() return None; and each
\* sunrise / sunset query returns None exactly when its solver request does.
C2_AbsencePropagation ==
    /\ (DefaultTemporalHour \/ call.op = "sun_transit") =>
           ((SeaLevelRiseAnswer = None \/ SeaLevelSetAnswer = None) => ret = None)
    /\ call.op \in SunriseOps \cup SunsetOps =>
           /\ ret = None <=> SolverAnswer = None
           /\ ret # None => ret.kind = "datetime"

C2_Witness ==
    /\ call.op = "sun_transit"
    /\ SeaLevelRiseAnswer # None
    /\ SeaLevelSetAnswer = None
    /\ ret = None

\* C3: an argument of temporal_hour that is not supplied is replaced by
\* sea_level_sunrise() / sea_level_sunset(); one supplied as None is not
\* replaced and makes the result None; one supplied as a date-time is used
\* as given.
C3_DefaultVersusExplicit ==
    call.op = "temporal_hour" =>
        LET rise == IF call.sunrise = sentinel
                    THEN date_time_from_time_of_day(Self, SeaLevelRiseAnswer, "sunrise")
                    ELSE call.sunrise
            set == IF call.sunset = sentinel
                   THEN date_time_from_time_of_day(Self, SeaLevelSetAnswer, "sunset")
                   ELSE call.sunset
        IN  /\ (call.sunrise = None \/ call.sunset = None) => ret = None
            /\ (rise # None /\ set # None) =>
                   /\ ret # None
                   /\ 12 * ret.millis = (set.instant - rise.instant) * 1000

C3_Witness ==
    /\ call.op = "temporal_hour"
    /\ call.sunrise = sentinel
    /\ call.sunset = None
    /\ SeaLevelRiseAnswer # None
    /\ SeaLevelSetAnswer # None
    /\ ret = None

C3_WitnessExplicit ==
    /\ call.op = "temporal_hour"
    /\ call.sunrise = ExplicitSunrise(date)
    /\ call.sunset = sentinel
    /\ SeaLevelRiseAnswer # None
    /\ SeaLevelSetAnswer # None
    /\ ret # None
    /\ ret # temporal_hour(Self, sentinel, sentinel)

\* the solver's sea-level UTC sunrise hour is non-increasing and its sea-level
\* UTC sunset hour non-decreasing in the zenith, every event being present
MonotoneSolver ==
    /\ \A z \in Zeniths :
           /\ astronomical_calculator.sunrise[z] # None
           /\ astronomical_calculator.sunset[z] # None
    /\ \A z1, z2 \in Zeniths :
           z1 < z2 =>
               /\ astronomical_calculator.sunrise[z2].seconds
                      <= astronomical_calculator.sunrise[z1].seconds
               /\ astronomical_calculator.sunset[z2].seconds
                      >= astronomical_calculator.sunset[z1].seconds

\* the days by which the date-boundary correction moves the sea-level event
\* of a mode at a zenith
CorrectionDays(mode, zenith) ==
    LET answer == IF mode = "sunrise"
                  THEN astronomical_calculator.sunrise[zenith]
                  ELSE astronomical_calculator.sunset[zenith]
    IN  wraparound_days(Self, answer.seconds \div 3600, mode)

\* C4 as stated: under a monotone solver, for zeniths z1 < z2 the sunrise at z2
\* is not later than the sunrise at z1 and the sunset at z2 not earlier than
\* the sunset at z1.
C4_MonotonicZenithWidening ==
    MonotoneSolver =>
        /\ call.op = "sunrise_offset_by_degrees" =>
               \A z1 \in Zeniths :
                   z1 < call.zenith =>
                       ret.instant <= sunrise_offset_by_degrees(Self, z1).instant
        /\ call.op = "sunset_offset_by_degrees" =>
               \A z1 \in Zeniths :
                   z1 < call.zenith =>
                       ret.instant >= sunset_offset_by_degrees(Self, z1).instant

\* The statement of C4 for the pairs of sunrises whose solver answers, and the
\* location's offsets, are whole hours: there the hour of the answer is the
\* answer itself, and the statement fails all the same.
C4_WholeHourSunrises ==
    (MonotoneSolver /\ call.op = "sunrise_offset_by_degrees"
     /\ LocalOffsetMillis % HOUR_MILLIS = 0
     /\ SolverAnswer.seconds % 3600 = 0) =>
        \A z1 \in Zeniths :
            (z1 < call.zenith /\ astronomical_calculator.sunrise[z1].seconds % 3600 = 0)
                => ret.instant <= sunrise_offset_by_degrees(Self, z1).instant

\* C4 as amended: the same, for the pairs z1 < z2 whose events receive the same
\* date-boundary correction.
C4_MonotonicUnderSameCorrection ==
    MonotoneSolver =>
        /\ call.op = "sunrise_offset_by_degrees" =>
               \A z1 \in Zeniths :
                   (z1 < call.zenith
                    /\ CorrectionDays("sunrise", z1) = CorrectionDays("sunrise", call.zenith))
                       => ret.instant <= sunrise_offset_by_degrees(Self, z1).instant
        /\ call.op = "sunset_offset_by_degrees" =>
               \A z1 \in Zeniths :
                   (z1 < call.zenith
                    /\ CorrectionDays("sunset", z1) = CorrectionDays("sunset", call.zenith))
                       => ret.instant >= sunset_offset_by_degrees(Self, z1).instant

C4_Witness ==
    /\ MonotoneSolver
    /\ call.op = "sunrise_offset_by_degrees"
    /\ call.zenith = ASTRONOMICAL_ZENITH
    /\ CorrectionDays("sunrise", GEOMETRIC_ZENITH) = -1
    /\ CorrectionDays("sunrise", ASTRONOMICAL_ZENITH) = -1
    /\ ret.instant < sunrise_offset_by_degrees(Self, GEOMETRIC_ZENITH).instant

\* the bounds temporal_hour resolves its arguments to
ResolvedSunrise ==
    IF call.sunrise = sentinel THEN sea_level_sunrise(Self) ELSE call.sunrise

ResolvedSunset ==
    IF call.sunset = sentinel THEN sea_level_sunset(Self) ELSE call.sunset

\* C5: when the resolved sunrise and sunset are present, twelve temporal hours
\* are the interval from sunrise to sunset in milliseconds; a 06:00 sunrise and
\* an 18:00 sunset of the same day give HOUR_MILLIS.
C5_TemporalHour ==
    (call.op = "temporal_hour" /\ ResolvedSunrise # None /\ ResolvedSunset # None) =>
        /\ ret.kind = "float"
        /\ 12 * ret.millis = (ResolvedSunset.instant - ResolvedSunrise.instant) * 1000
        /\ \A day \in (date - 2)..(date + 2) :
               (/\ ResolvedSunrise.instant = day * DAY_SECONDS + HM(6, 0)
                /\ ResolvedSunset.instant = day * DAY_SECONDS + HM(18, 0))
                   => ret.millis = HOUR_MILLIS

C5_Witness ==
    /\ DefaultTemporalHour
    /\ ResolvedSunrise # None
    /\ ResolvedSunset # None
    /\ ResolvedSunrise.instant = date * DAY_SECONDS + HM(6, 0)
    /\ ResolvedSunset.instant = date * DAY_SECONDS + HM(18, 0)
    /\ ret.millis = HOUR_MILLIS

\* C6: when sea_level_sunrise() and sea_level_sunset() are present, sun_transit()
\* is sea_level_sunrise() plus six temporal hours, the instant midway between
\* the two, in the location's time zone; 06:00 and 18:00 UTC at a zero-offset
\* UTC location give 12:00 of the date.
C6_SunTransit ==
    (call.op = "sun_transit"
     /\ sea_level_sunrise(Self) # None /\ sea_level_sunset(Self) # None) =>
        LET rise == sea_level_sunrise(Self)
            set == sea_level_sunset(Self)
        IN  /\ ret.kind = "datetime"
            /\ ret.instant * 1000
                   = rise.instant * 1000 + 6 * temporal_hour(Self, sentinel, sentinel).millis
            /\ 2 * ret.instant = rise.instant + set.instant
            /\ ret.tz = geo_location.time_zone
            /\ (/\ SeaLevelRiseAnswer = Float(HM(6, 0))
                /\ SeaLevelSetAnswer = Float(HM(18, 0))
                /\ LocalOffsetMillis = 0
                /\ geo_location.time_zone = UTC
                /\ geo_location.antimeridian_adjustment = 0)
                   => ret = DateTime(date, 12, 0, 0, UTC)

C6_Witness ==
    /\ call.op = "sun_transit"
    /\ SeaLevelRiseAnswer = Float(HM(6, 0))
    /\ SeaLevelSetAnswer = Float(HM(18, 0))
    /\ LocalOffsetMillis = 0
    /\ geo_location.time_zone = UTC
    /\ geo_location.antimeridian_adjustment = 0
    /\ ret = DateTime(date, 12, 0, 0, UTC)

\* the calendar bound to the same location at another elevation
AtElevation(elevation) ==
    [Self EXCEPT !.geo_location.elevation = elevation]

\* the solver's answer at the geometric zenith for the calendar's adjusted date
\* and location, with the elevation-adjustment flag as given
GeometricAnswer(mode, adjust_for_elevation) ==
    IF mode = "sunrise"
    THEN calculator_utc_sunrise(astronomical_calculator, adjusted_date(Self),
                                geo_location, GEOMETRIC_ZENITH, adjust_for_elevation)
    ELSE calculator_utc_sunset(astronomical_calculator, adjusted_date(Self),
                               geo_location, GEOMETRIC_ZENITH, adjust_for_elevation)

\* C7: sea_level_sunrise() is sunrise_offset_by_degrees(90) and
\* sea_level_sunset() is sunset_offset_by_degrees(90); both are built from the
\* solver's answer with the elevation flag off, so they are the same at every
\* elevation of the location, while sunrise() and sunset() are built from the
\* answer at the same zenith with the flag on.
C7_SeaLevelElevationInvariance ==
    /\ call.op = "sea_level_sunrise" =>
           /\ ret = sunrise_offset_by_degrees(Self, GEOMETRIC_ZENITH)
           /\ ret = date_time_from_time_of_day(Self, GeometricAnswer("sunrise", FALSE),
                                               "sunrise")
           /\ \A e \in Elevations : ret = sea_level_sunrise(AtElevation(e))
    /\ call.op = "sea_level_sunset" =>
           /\ ret = sunset_offset_by_degrees(Self, GEOMETRIC_ZENITH)
           /\ ret = date_time_from_time_of_day(Self, GeometricAnswer("sunset", FALSE),
                                               "sunset")
           /\ \A e \in Elevations : ret = sea_level_sunset(AtElevation(e))
    /\ call.op = "sunrise" =>
           ret = date_time_from_time_of_day(Self, GeometricAnswer("sunrise", TRUE),
                                            "sunrise")
    /\ call.op = "sunset" =>
           ret = date_time_from_time_of_day(Self, GeometricAnswer("sunset", TRUE),
                                            "sunset")

C7_Witness ==
    /\ call.op = "sea_level_sunrise"
    /\ geo_location.elevation > 0
    /\ ret # None
    /\ ret = sunrise_offset_by_degrees(Self, GEOMETRIC_ZENITH)
    /\ ret # sunrise(Self)

\* C9: when the solver's sea-level sunrise hour at the geometric zenith is not
\* after its sunset hour, sea_level_sunrise() is not later than
\* sea_level_sunset() and temporal_hour() is not negative; the correction moves
\* a sunrise back by one day or not at all and a sunset forward by one day or
\* not at all.
C9_OrderPreserved ==
    /\ (/\ SeaLevelRiseAnswer # None /\ SeaLevelSetAnswer # None
        /\ SeaLevelRiseAnswer.seconds <= SeaLevelSetAnswer.seconds) =>
           /\ call.op = "sea_level_sunrise" =>
                  ret.instant <= sea_level_sunset(Self).instant
           /\ call.op = "sea_level_sunset" =>
                  sea_level_sunrise(Self).instant <= ret.instant
           /\ DefaultTemporalHour => ret.millis >= 0
    /\ (call.op \in SunriseOps /\ ret # None) =>
           ret.instant - AdjustedInstant(SolverAnswer.seconds) \in {-DAY_SECONDS, 0}
    /\ (call.op \in SunsetOps /\ ret # None) =>
           ret.instant - AdjustedInstant(SolverAnswer.seconds) \in {0, DAY_SECONDS}

C9_Witness ==
    /\ DefaultTemporalHour
    /\ SeaLevelRiseAnswer # None
    /\ SeaLevelSetAnswer # None
    /\ SeaLevelRiseAnswer.seconds <= SeaLevelSetAnswer.seconds
    /\ CorrectionDays("sunrise", GEOMETRIC_ZENITH) = -1
    /\ CorrectionDays("sunset", GEOMETRIC_ZENITH) = 0
    /\ ret.millis > 2 * HOUR_MILLIS

\* the numeric value of each Hebrew letter
LetterValue ==
    [alef |-> 1, bet |-> 2, gimel |-> 3, dalet |-> 4, he |-> 5, vav |-> 6,
     zayin |-> 7, chet |-> 8, tet |-> 9, yod |-> 10, kaf |-> 20, final_kaf |-> 20,
     lamed |-> 30, mem |-> 40, final_mem |-> 40, nun |-> 50, final_nun |-> 50,
     samekh |-> 60, ayin |-> 70, pe |-> 80, final_pe |-> 80, tsadi |-> 90,
     final_tsadi |-> 90, qof |-> 100, resh |-> 200, shin |-> 300, tav |-> 400]

Letters == DOMAIN LetterValue

\* the numbers written with a single Hebrew letter
SingleLetterNumbers ==
    (1..10) \cup {10 * k : k \in 2..9} \cup {100 * k : k \in 1..4}

\* C8: with use_geresh_gershayim, format_hebrew_number closes a number whose
\* remainder modulo 1000 is a single letter with one geresh after that letter,
\* and puts one gershayim before the last letter of any other number that is no
\* multiple of 1000, 15 and 16 being tet-vav and tet-zayin; a multiple of 1000
\* is the thousands letter, a geresh, a space and alafim; 0 is efes; a number
\* below 0 or above 9999 raises ValueError.
C8_GereshGershayim ==
    (call.op = "format_hebrew_number" /\ formatter.use_geresh_gershayim) =>
        LET number == call.number
            short == number % 1000
        IN  IF number < 0 \/ number > 9999
            THEN ret = ValueError
            ELSE IF number = 0
            THEN ret = Str(EFES)
            ELSE IF short = 0
            THEN \E letter \in Letters :
                     /\ LetterValue[letter] = number \div 1000
                     /\ ret = Str(<<letter, GERESH, SPACE>> \o ALAFIM)
            ELSE /\ ret.kind = "str"
                 /\ LET string == ret.chars
                        last == Len(string)
                    IN  IF short \in SingleLetterNumbers
                        THEN /\ last >= 2
                             /\ string[last] = GERESH
                             /\ string[last - 1] \in Letters
                             /\ LetterValue[string[last - 1]] = short
                             /\ last > 2 => string[last - 2] \notin Letters
                        ELSE /\ last >= 3
                             /\ {i \in 1..last : string[i] = GERSHAYIM} = {last - 1}
                             /\ string[last] \in Letters
                             /\ string[last - 2] \in Letters
                             /\ short % 100 = 15 =>
                                    string[last - 2] = "tet" /\ string[last] = "vav"
                             /\ short % 100 = 16 =>
                                    string[last - 2] = "tet" /\ string[last] = "zayin"

C8_Witness ==
    /\ call.op = "format_hebrew_number"
    /\ formatter.use_geresh_gershayim
    /\ formatter.use_long_hebrew_years
    /\ call.number = 5769
    /\ ret = Str(<<"he", GERESH, SPACE, "tav", "shin", "samekh", GERSHAYIM, "tet">>)

\* the holidays a significant day can name
Holidays ==
    {"erev_pesach", "pesach", "chol_hamoed_pesach", "pesach_sheni", "erev_shavuos",
     "shavuos", "seventeenth_of_tammuz", "tishah_beav", "tu_beav",
     "erev_rosh_hashana", "rosh_hashana", "fast_of_gedalyah", "erev_yom_kippur",
     "yom_kippur", "erev_succos", "succos", "chol_hamoed_succos", "hoshana_rabbah",
     "shemini_atzeres", "simchas_torah", "erev_chanukah", "chanukah",
     "tenth_of_teves", "tu_beshvat", "fast_of_esther", "purim", "shushan_purim",
     "purim_katan", "shushan_purim_katan", "rosh_chodesh", "yom_hashoah",
     "yom_hazikaron", "yom_haatzmaut", "yom_yerushalayim"}

\* C10: the two holiday tables have the same entries (a position is in one
\* exactly when it is in the other), and for every significant day
\* format_yom_tov returns, without an index error, the Hebrew or the
\* transliterated name of the holiday at that position (with the day of
\* Chanukah for Chanukah); without a significant day it returns "".
C10_HolidayTablesAligned ==
    call.op = "format_yom_tov" =>
        /\ ret.kind = "str"
        /\ LET jewish_calendar == call.jewish_calendar
           IN  IF jewish_calendar.significant_day = None
               THEN ret = Str(<<>>)
               ELSE /\ jewish_calendar.significant_day.value < Len(HEBREW_HOLIDAYS)
                        <=> jewish_calendar.significant_day.value
                                < Len(TRANSLITERATED_HOLIDAYS)
                    /\ \E holiday \in Holidays :
                             /\ Index(TRANSLITERATED_HOLIDAYS,
                                      jewish_calendar.significant_day.value) = En(holiday)
                             /\ IF jewish_calendar.significant_day.value = CHANUKAH
                                THEN IF formatter.hebrew_format
                                     THEN ret.chars
                                              = format_hebrew_number(
                                                    formatter,
                                                    jewish_calendar.day_of_chanukah).chars
                                                  \o <<SPACE>> \o He(holiday)
                                     ELSE ret.chars
                                              = En(holiday) \o <<SPACE>>
                                                  \o Decimal(jewish_calendar.day_of_chanukah)
                                ELSE ret.chars = IF formatter.hebrew_format
                                                 THEN He(holiday)
                                                 ELSE En(holiday)

====
